---- MODULE Spec2Model ----
(***************************************************************************)
(* Model of the script editor's process execution and interactive shell    *)
(* code: ScriptTab / ScriptEditor.run_script (both editor files) and       *)
(* TerminalWidget (advanced_script_editor.py).                             *)
(*                                                                         *)
(* The model is at the level of the classes' methods: every handler is an  *)
(* action that runs the whole method.  File system, child processes and    *)
(* the Qt / PyQt runtime are the environment; their outcomes are chosen    *)
(* with \E over the outcomes they can produce.                             *)
(*                                                                         *)
(* Paths are sequences of one-character strings; characters of texts that  *)
(* are encoded or decoded are code points, and bytes are 0..255.           *)
(*                                                                         *)
(* The specifications share the variables: SpecRun (tabs, files and        *)
(* run_script), SpecShell (the shell process, its start and its input),    *)
(* SpecStream (the shell's output as Qt hands it to the listeners) and     *)
(* SpecListener (the listeners as methods, called on an empty buffer too). *)
(***************************************************************************)
EXTENDS Integers, Sequences, FiniteSets, TLC

VARIABLES
    tabs,       \* QTabWidget: sequence of ScriptTab [file_path, text]
    cur,        \* QTabWidget.currentIndex(), 1-based; 0 when there is no tab
    disk,       \* file system: path -> file content, or Absent
    lastRun,    \* what run_script did, when it was the last handler to run
    app,        \* "running" | "closed" (app.exec_ returned) | "aborted"
    procState,  \* QProcess.state() of TerminalWidget.process
    live,       \* pids of shell child processes that are alive
    nextPid,    \* pid the OS gives to the next child
    stdin,      \* bytes the live shell process has received on its input
    input,      \* TerminalWidget.input: text of the input box
    lastCall,   \* the last TerminalWidget call, when it was the last handler
    pipe,       \* per stream: bytes the shell wrote that Qt has not read yet
    output,     \* TerminalWidget.output: the document, a sequence of blocks
    taken,      \* per stream: the chunks the listener has read, in order
    lastRead    \* what the most recent on_stdout / on_stderr call did

runVars    == <<tabs, cur, disk, lastRun>>
shellVars  == <<procState, live, nextPid, stdin, input, lastCall>>
streamVars == <<pipe, output, taken, lastRead>>
vars == <<tabs, cur, disk, lastRun, app, procState, live, nextPid, stdin,
          input, lastCall, pipe, output, taken, lastRead>>

(***************************************************************************)
(* Bounds of the model.                                                    *)
(***************************************************************************)
MaxTabs == 1
MaxExitCode == 1

None == "None"
Absent == "Absent"
NoPath == <<>>      \* file_path of a tab that has none (None or "")
NoCmd == <<>>       \* no command: the else branch of the if/elif chain

(***************************************************************************)
(* Files of the modelled file system and the buffer texts (opaque).        *)
(***************************************************************************)
PathPy  == <<"a", ".", "p", "y">>
PathBat == <<"b", ".", "b", "a", "t">>
PathTxt == <<"c", ".", "t", "x", "t">>
Paths == {PathPy, PathBat, PathTxt}
Texts == {"", "p", "pr"}

\* The texts that are the start of text t and shorter than it.
ProperPrefixes(t) ==
    CASE t = "pr" -> {"", "p"}
      [] t = "p" -> {""}
      [] OTHER -> {}

(***************************************************************************)
(* os.path.splitext(p)[1]: the extension starts at the last dot, provided  *)
(* the dot comes after the last separator and some character between the   *)
(* separator and that dot is not a dot (leading dots are not an extension).*)
(***************************************************************************)
rfind(p, chars) ==
    LET hits == {i \in 1..Len(p) : p[i] \in chars}
    IN  IF hits = {} THEN 0 ELSE CHOOSE i \in hits : \A j \in hits : j <= i

splitext_ext(p) ==
    LET sepIndex == rfind(p, {"/", "\\"})
        dotIndex == rfind(p, {"."})
    IN  IF dotIndex > sepIndex
           /\ \E i \in (sepIndex + 1)..(dotIndex - 1) : p[i] /= "."
        THEN SubSeq(p, dotIndex, Len(p))
        ELSE <<>>

SUPPORTED_EXTENSIONS == {<<".", "p", "y">>, <<".", "b", "a", "t">>, <<".", "p", "s", "1">>}

(***************************************************************************)
(* The if/elif chain of run_script that builds the interpreter command;    *)
(* NoCmd stands for the else branch.                                       *)
(***************************************************************************)
InterpreterCmd_AnyExt(ext, file_path) ==
    IF ext = <<".", "b", "a", "t">> THEN <<"cmd.exe", "/c", file_path>>
    ELSE IF ext = <<".", "p", "s", "1">> THEN <<"powershell", "-File", file_path>>
    ELSE <<"python", file_path>>

InterpreterCmd(ext, file_path) ==
    IF ext = <<".", "p", "y">> THEN <<"python", file_path>>
    ELSE IF ext = <<".", "b", "a", "t">> THEN <<"cmd.exe", "/c", file_path>>
    ELSE IF ext = <<".", "p", "s", "1">> THEN <<"powershell", "-File", file_path>>
    ELSE NoCmd

(***************************************************************************)
(* Text codecs.  ok = FALSE stands for UnicodeDecodeError.                 *)
(***************************************************************************)
\* str.encode('utf-8') of a text without surrogate code points.
RECURSIVE utf8_encode(_)
utf8_encode(t) ==
    IF t = <<>> THEN <<>>
    ELSE LET c == Head(t)
         IN  (IF c < 128 THEN <<c>>
              ELSE IF c < 2048 THEN <<192 + (c \div 64), 128 + (c % 64)>>
              ELSE IF c < 65536
                   THEN <<224 + (c \div 4096), 128 + ((c \div 64) % 64), 128 + (c % 64)>>
              ELSE <<240 + (c \div 262144), 128 + ((c \div 4096) % 64),
                     128 + ((c \div 64) % 64), 128 + (c % 64)>>)
             \o utf8_encode(Tail(t))

\* bytes.decode(): strict UTF-8.  Overlong forms, surrogates, code points
\* above U+10FFFF and truncated sequences are errors.
RECURSIVE utf8_decode(_)
utf8_decode(b) ==
    IF b = <<>> THEN [ok |-> TRUE, text |-> <<>>]
    ELSE
    LET b1 == b[1]
        cont(i) == i <= Len(b) /\ b[i] \in 128..191
        size == IF b1 < 128 THEN 1
                ELSE IF b1 \in 194..223 /\ cont(2) THEN 2
                ELSE IF /\ b1 \in 224..239 /\ cont(2) /\ cont(3)
                        /\ (b1 = 224 => b[2] >= 160)
                        /\ (b1 = 237 => b[2] <= 159) THEN 3
                ELSE IF /\ b1 \in 240..244 /\ cont(2) /\ cont(3) /\ cont(4)
                        /\ (b1 = 240 => b[2] >= 144)
                        /\ (b1 = 244 => b[2] <= 143) THEN 4
                ELSE 0
        c == CASE size = 1 -> b1
               [] size = 2 -> (b1 - 192) * 64 + (b[2] - 128)
               [] size = 3 -> (b1 - 224) * 4096 + (b[2] - 128) * 64 + (b[3] - 128)
               [] size = 4 -> (b1 - 240) * 262144 + (b[2] - 128) * 4096
                              + (b[3] - 128) * 64 + (b[4] - 128)
               [] OTHER -> 0
    IN  IF size = 0 THEN [ok |-> FALSE, text |-> <<>>]
        ELSE LET r == utf8_decode(SubSeq(b, size + 1, Len(b)))
             IN  [ok |-> r.ok, text |-> IF r.ok THEN <<c>> \o r.text ELSE <<>>]

\* Windows-1252: the code points of the bytes 0x80..0x9F; -1 marks the five
\* bytes the code page leaves undefined.  Every other byte, NUL included, is
\* its own code point.
cp1252_high ==
    <<8364, -1, 8218, 402, 8222, 8230, 8224, 8225, 710, 8240, 352, 8249, 338, -1, 381, -1,
      -1, 8216, 8217, 8220, 8221, 8226, 8211, 8212, 732, 8482, 353, 8250, 339, -1, 382, 376>>

cp1252_char(x) == IF x \in 128..159 THEN cp1252_high[x - 127] ELSE x

cp1252_decode(b) ==
    IF \E i \in 1..Len(b) : cp1252_char(b[i]) = -1
    THEN [ok |-> FALSE, text |-> <<>>]
    ELSE [ok |-> TRUE, text |-> [i \in 1..Len(b) |-> cp1252_char(b[i])]]

\* The encodings a machine's locale can name (locale.getpreferredencoding).
Encodings == {"utf-8", "cp1252"}

locale_decode(encoding, b) ==
    IF encoding = "utf-8" THEN utf8_decode(b) ELSE cp1252_decode(b)

\* Universal newlines: text.replace("\r\n", "\n").replace("\r", "\n")
RECURSIVE translate_newlines(_)
translate_newlines(t) ==
    IF t = <<>> THEN <<>>
    ELSE IF Head(t) = 13
    THEN <<10>> \o translate_newlines(IF Len(t) >= 2 /\ t[2] = 10
                                      THEN SubSeq(t, 3, Len(t)) ELSE Tail(t))
    ELSE <<Head(t)>> \o translate_newlines(Tail(t))

(***************************************************************************)
(* What a child of run_script does: the writes it makes to its stdout and  *)
(* stderr, in order, as bytes, and its exit code.  launched = FALSE is the *)
(* OS failing to create the child (Popen raises OSError).  encoding is the *)
(* locale's encoding on the machine of the run.  The cases: "e" (101) on   *)
(* stderr, then "o" (111) on stdout; "o" and a CR LF line end; the byte    *)
(* 0xFF, which is no UTF-8 and is y-diaeresis in cp1252.                   *)
(***************************************************************************)
ChildRuns ==
    { [writes |-> <<[fd |-> "stderr", data |-> <<101>>],
                    [fd |-> "stdout", data |-> <<111>>]>>, encoding |-> "cp1252"],
      [writes |-> <<[fd |-> "stdout", data |-> <<111, 13, 10>>]>>, encoding |-> "utf-8"],
      [writes |-> <<[fd |-> "stdout", data |-> <<255>>]>>, encoding |-> "utf-8"],
      [writes |-> <<[fd |-> "stdout", data |-> <<255>>]>>, encoding |-> "cp1252"] }

Outcomes ==
    { [launched |-> TRUE, code |-> c, writes |-> r.writes, encoding |-> r.encoding] :
        c \in 0..MaxExitCode, r \in ChildRuns }
    \cup { [launched |-> FALSE, code |-> 0, writes |-> <<>>, encoding |-> "utf-8"] }

\* stderr=subprocess.STDOUT: both descriptors are the one captured pipe.
RECURSIVE Captured(_)
Captured(writes) ==
    IF writes = <<>> THEN <<>> ELSE Head(writes).data \o Captured(Tail(writes))

\* subprocess.check_output(..., text=True): returns the output, or raises.
\* The captured bytes are decoded with the locale's encoding (strict) and
\* the line ends translated before the exit code is looked at.
check_output(o) ==
    IF ~o.launched THEN [exc |-> "OSError", output |-> <<>>]
    ELSE LET d == locale_decode(o.encoding, Captured(o.writes)) IN
         IF ~d.ok THEN [exc |-> "UnicodeDecodeError", output |-> <<>>]
         ELSE IF o.code /= 0
         THEN [exc |-> "CalledProcessError", output |-> translate_newlines(d.text)]
         ELSE [exc |-> None, output |-> translate_newlines(d.text)]

(***************************************************************************)
(* ScriptEditor.current_tab                                                *)
(***************************************************************************)
NoTab == [file_path |-> NoPath, text |-> ""]
current_tab == IF cur = 0 THEN NoTab ELSE tabs[cur]

NoRun ==
    [called |-> FALSE, impl |-> None, path |-> NoPath, existed |-> FALSE, saved |-> FALSE,
     cmd |-> NoCmd, dialog |-> None, text |-> <<>>, launched |-> FALSE,
     code |-> 0, writes |-> <<>>, encoding |-> None]

\* An exception that leaves a slot: PyQt either prints it and goes on, or
\* aborts the application, depending on its version.
SlotFault(abort) == IF abort THEN "aborted" ELSE app

\* ScriptTab.save with a file_path set: the file holds the buffer's text.
\* The result is the file system at the time the next statement runs.
save_NotBeforeSpawn(d, tab) == d

save(d, tab) == [d EXCEPT ![tab.file_path] = tab.text]

\* The file systems a ScriptTab.save that raised can leave.  open(file_path,
\* "w") raising leaves it as it was.  Once the file is open it has been
\* created or emptied; when the write then raises (the file system refuses
\* the data), the file holds the part of the buffer stored until then, a
\* text shorter than the buffer.
save_failed(d, tab) ==
    {d} \cup {[d EXCEPT ![tab.file_path] = part] : part \in ProperPrefixes(tab.text)}

(***************************************************************************)
(* ScriptEditor.run_script, the same in both editor files.                 *)
(***************************************************************************)
RunScriptBody(impl) ==
    LET tab == current_tab IN
    IF cur = 0 \/ tab.file_path = NoPath
    THEN /\ lastRun' = [NoRun EXCEPT !.called = TRUE, !.impl = impl,
                                     !.dialog = "warning:unsaved"]
         /\ UNCHANGED <<disk, app>>
    ELSE
    LET ext == splitext_ext(tab.file_path)
        cmd == InterpreterCmd(ext, tab.file_path)
        base == [NoRun EXCEPT !.called = TRUE, !.impl = impl,
                              !.path = tab.file_path,
                              !.existed = (disk[tab.file_path] /= Absent)]
    IN
    IF cmd = NoCmd
    THEN /\ lastRun' = [base EXCEPT !.dialog = "warning:unsupported"]
         /\ UNCHANGED <<disk, app>>
    ELSE
    \/ \* tab.save() raises OSError in open() or in the write; nothing
       \* catches it and check_output is not reached
       /\ lastRun' = [base EXCEPT !.dialog = "fault:OSError"]
       /\ \E abort \in BOOLEAN : app' = SlotFault(abort)
       /\ disk' \in save_failed(disk, tab)
    \/ \* tab.save() writes the buffer, then subprocess.check_output(cmd, ...);
       \* only CalledProcessError is caught, any other exception leaves the slot
       \E o \in Outcomes :
         LET r == check_output(o) IN
         /\ disk' = save(disk, tab)
         /\ lastRun' =
              [base EXCEPT !.saved = TRUE, !.cmd = cmd,
                           !.launched = o.launched, !.code = o.code,
                           !.writes = o.writes,
                           !.text = r.output,
                           !.encoding = o.encoding,
                           !.dialog = CASE r.exc = None -> "information:output"
                                        [] r.exc = "CalledProcessError" -> "warning:error"
                                        [] r.exc = "OSError" -> "fault:OSError"
                                        [] OTHER -> "fault:UnicodeDecodeError"]
         /\ IF r.exc \in {"OSError", "UnicodeDecodeError"}
            THEN \E abort \in BOOLEAN : app' = SlotFault(abort)
            ELSE app' = app

run_script ==
    /\ app = "running"
    /\ RunScriptBody("advanced_script_editor")
    /\ UNCHANGED <<tabs, cur>>
    /\ UNCHANGED shellVars /\ UNCHANGED streamVars

run_script_main ==
    /\ app = "running"
    /\ RunScriptBody("unify-main")
    /\ UNCHANGED <<tabs, cur>>
    /\ UNCHANGED shellVars /\ UNCHANGED streamVars

(***************************************************************************)
(* Tabs and files.                                                         *)
(***************************************************************************)
\* ScriptTab(file_path): reads the file; an absent file raises in the
\* constructor and no tab is added.
open_file ==
    /\ app = "running"
    /\ Len(tabs) < MaxTabs
    /\ \E p \in Paths :
        IF disk[p] = Absent
        THEN /\ \E abort \in BOOLEAN : app' = SlotFault(abort)
             /\ UNCHANGED <<tabs, cur>>
        ELSE /\ tabs' = Append(tabs, [file_path |-> p, text |-> disk[p]])
             /\ cur' = Len(tabs) + 1
             /\ UNCHANGED app
    /\ lastRun' = NoRun /\ UNCHANGED disk
    /\ UNCHANGED shellVars /\ UNCHANGED streamVars

\* load_file_from_explorer: a double click in the explorer tree.  A path
\* that os.path.isfile rejects is ignored; a file is opened as in open_file,
\* and one that another program removes between the test and the open
\* raises in the constructor.
load_file_from_explorer ==
    /\ app = "running"
    /\ Len(tabs) < MaxTabs
    /\ \E p \in Paths :
        IF disk[p] = Absent
        THEN UNCHANGED <<tabs, cur, disk, app>>
        ELSE \/ /\ tabs' = Append(tabs, [file_path |-> p, text |-> disk[p]])
                /\ cur' = Len(tabs) + 1
                /\ UNCHANGED <<disk, app>>
             \/ /\ disk' = [disk EXCEPT ![p] = Absent]
                /\ \E abort \in BOOLEAN : app' = SlotFault(abort)
                /\ UNCHANGED <<tabs, cur>>
    /\ lastRun' = NoRun
    /\ UNCHANGED shellVars /\ UNCHANGED streamVars

\* new_file: as open_file, then tab.setText("").
new_file ==
    /\ app = "running"
    /\ Len(tabs) < MaxTabs
    /\ \E p \in Paths :
        IF disk[p] = Absent
        THEN /\ \E abort \in BOOLEAN : app' = SlotFault(abort)
             /\ UNCHANGED <<tabs, cur>>
        ELSE /\ tabs' = Append(tabs, [file_path |-> p, text |-> ""])
             /\ cur' = Len(tabs) + 1
             /\ UNCHANGED app
    /\ lastRun' = NoRun /\ UNCHANGED disk
    /\ UNCHANGED shellVars /\ UNCHANGED streamVars

\* close_tab: removeTab(currentIndex); Qt then selects the tab to the right,
\* or the last one when there is none.
close_tab ==
    /\ app = "running"
    /\ cur >= 1
    /\ tabs' = [i \in 1..(Len(tabs) - 1) |-> IF i < cur THEN tabs[i] ELSE tabs[i + 1]]
    /\ cur' = IF cur <= Len(tabs) - 1 THEN cur ELSE Len(tabs) - 1
    /\ lastRun' = NoRun /\ UNCHANGED <<disk, app>>
    /\ UNCHANGED shellVars /\ UNCHANGED streamVars

\* The user edits the current tab's buffer.
edit_text ==
    /\ app = "running"
    /\ cur >= 1
    /\ \E t \in Texts :
        /\ t /= tabs[cur].text
        /\ tabs' = [tabs EXCEPT ![cur].text = t]
    /\ lastRun' = NoRun /\ UNCHANGED <<cur, disk, app>>
    /\ UNCHANGED shellVars /\ UNCHANGED streamVars

\* ScriptTab.save, through save_file.
save_file ==
    /\ app = "running"
    /\ cur >= 1
    /\ \/ /\ disk' = save(disk, tabs[cur])
          /\ UNCHANGED app
       \/ /\ disk' \in save_failed(disk, tabs[cur])
          /\ \E abort \in BOOLEAN : app' = SlotFault(abort)
    /\ lastRun' = NoRun /\ UNCHANGED <<tabs, cur>>
    /\ UNCHANGED shellVars /\ UNCHANGED streamVars

\* Another program deletes a file.
EnvDelete ==
    /\ \E p \in Paths :
        /\ disk[p] /= Absent
        /\ disk' = [disk EXCEPT ![p] = Absent]
    /\ UNCHANGED <<tabs, cur, lastRun, app>>
    /\ UNCHANGED shellVars /\ UNCHANGED streamVars

(***************************************************************************)
(* TerminalWidget.  Characters are code points, bytes are 0..255.          *)
(***************************************************************************)
Streams == {"stdout", "stderr"}

MaxInput == 2        \* longest text of the input box
MaxStdin == 5        \* a submit is taken only while stdin holds fewer bytes
MaxStarts == 1       \* shell processes created in one run of the model
MaxStreamBytes == 3  \* bytes a shell process writes to one stream
MaxEmptyReads == 1   \* empty blocks that listener calls on no bytes leave

\* space, "a", e-acute
InputChars == {32, 97, 233}
\* "a", e-acute, the euro sign: one, two and three bytes in UTF-8
OutChars == {97, 233, 8364}

RECURSIVE SeqsUpTo(_, _)
SeqsUpTo(S, n) ==
    IF n = 0 THEN {<<>>}
    ELSE LET shorter == SeqsUpTo(S, n - 1)
         IN  shorter \cup {Append(t, c) : t \in {u \in shorter : Len(u) = n - 1}, c \in S}

InputTexts == SeqsUpTo(InputChars, MaxInput)

\* str.isspace for the characters below 256
IsSpace(c) == c \in {9, 10, 11, 12, 13, 28, 29, 30, 31, 32, 133, 160}

\* str.strip(): drop leading, then trailing, whitespace.
RECURSIVE lstrip(_)
lstrip(t) ==
    IF t /= <<>> /\ IsSpace(Head(t)) THEN lstrip(Tail(t)) ELSE t

RECURSIVE rstrip(_)
rstrip(t) ==
    IF t /= <<>> /\ IsSpace(t[Len(t)]) THEN rstrip(SubSeq(t, 1, Len(t) - 1)) ELSE t

strip_LeftOnly(t) == lstrip(t)

strip(t) == rstrip(lstrip(t))

NoCall == [op |-> "none", key |-> "", text |-> <<>>, running |-> FALSE]

\* QProcess.write(data): the bytes reach the child's input while the process
\* is running; otherwise no child receives them.
QProcessWrite(data) ==
    IF procState = "Running" THEN stdin \o data ELSE stdin

\* TerminalWidget.start: QProcess.start(shell).  A QProcess that is not in
\* state NotRunning warns "Process is already running" and returns.  The
\* editor calls it once, while the window is built (Init); the action is a
\* later call of the method.
StartBody_NoGuard ==
    \E ok \in BOOLEAN :
        IF ok
        THEN /\ procState' = "Running"
             /\ live' = live \cup {nextPid}
             /\ nextPid' = nextPid + 1
             /\ stdin' = <<>>
             /\ pipe' = [s \in Streams |-> <<>>]
        ELSE UNCHANGED <<procState, live, nextPid, stdin, pipe>>

StartBody ==
    IF procState /= "NotRunning"
    THEN UNCHANGED <<procState, live, nextPid, stdin, pipe>>
    ELSE \E ok \in BOOLEAN :
        IF ok
        THEN /\ procState' = "Running"
             /\ live' = live \cup {nextPid}
             /\ nextPid' = nextPid + 1
             /\ stdin' = <<>>
             /\ pipe' = [s \in Streams |-> <<>>]
        ELSE UNCHANGED <<procState, live, nextPid, stdin, pipe>>

start ==
    /\ app = "running"
    /\ procState /= "NotRunning" \/ nextPid <= MaxStarts
    /\ StartBody
    /\ lastCall' = [NoCall EXCEPT !.op = "start", !.running = (procState = "Running")]
    /\ UNCHANGED <<input, app, output, taken, lastRead>>
    /\ UNCHANGED runVars

\* The input box's keyPressEvent is replaced by handle_keypress, so typed
\* keys never reach the QTextEdit; text gets in by paste or drop.
paste_input ==
    /\ app = "running"
    /\ \E t \in InputTexts :
        /\ t /= input
        /\ input' = t
    /\ lastCall' = NoCall
    /\ UNCHANGED <<procState, live, nextPid, stdin, app>>
    /\ UNCHANGED streamVars /\ UNCHANGED runVars

Keys == {"Key_Return", "Key_Enter", "Key_A"}

KeypressBody_AutoStart(key) ==
    IF key /= "Key_Return"
    THEN UNCHANGED <<input, stdin, procState, live, nextPid>>
    ELSE LET command == strip(input) IN
         /\ input' = <<>>
         /\ IF procState = "Running" \/ command = <<>>
            THEN /\ stdin' = IF command /= <<>>
                             THEN QProcessWrite(utf8_encode(command \o <<10>>))
                             ELSE stdin
                 /\ UNCHANGED <<procState, live, nextPid>>
            ELSE /\ procState' = "Running"
                 /\ live' = live \cup {nextPid}
                 /\ nextPid' = nextPid + 1
                 /\ stdin' = utf8_encode(command \o <<10>>)

KeypressBody(key) ==
    IF key /= "Key_Return"
    THEN UNCHANGED <<input, stdin, procState, live, nextPid>>
    ELSE LET command == strip(input) IN
         /\ input' = <<>>
         /\ stdin' = IF command /= <<>>
                     THEN QProcessWrite(utf8_encode(command \o <<10>>))
                     ELSE stdin
         /\ UNCHANGED <<procState, live, nextPid>>

handle_keypress ==
    /\ app = "running"
    /\ Len(stdin) < MaxStdin
    /\ \E key \in Keys :
        /\ KeypressBody(key)
        /\ lastCall' = [op |-> "keypress", key |-> key, text |-> input,
                        running |-> (procState = "Running")]
    /\ UNCHANGED app
    /\ UNCHANGED streamVars /\ UNCHANGED runVars

\* Toolbar "Undo": lambda: self.current_tab().undo().  With no tab open
\* current_tab() is None and the lambda raises AttributeError.
undo ==
    /\ app = "running"
    /\ cur = 0
    /\ \E abort \in BOOLEAN : app' = SlotFault(abort)
    /\ lastCall' = NoCall
    /\ UNCHANGED <<procState, live, nextPid, stdin, input>>
    /\ UNCHANGED streamVars /\ UNCHANGED runVars

\* The window is closed: app.exec_() returns and sys.exit() ends the
\* interpreter.  Nothing in the code stops the shell.  The QProcess has no
\* parent: a running child is killed only if the QProcess object happens to
\* be destroyed while the interpreter exits, which PyQt5 does not promise;
\* otherwise the child stays alive.
normal_exit ==
    /\ app = "running"
    /\ app' = "closed"
    /\ \E destroyed \in BOOLEAN :
        IF destroyed
        THEN procState' = "NotRunning" /\ live' = {}
        ELSE UNCHANGED <<procState, live>>
    /\ UNCHANGED <<nextPid, stdin, input, lastCall>>
    /\ UNCHANGED streamVars /\ UNCHANGED runVars

(***************************************************************************)
(* The shell's output.  The child writes characters to a stream; QProcess  *)
(* reads bytes of the pipe into its read buffer and then emits             *)
(* readyReadStandardOutput / readyReadStandardError, and the connected     *)
(* listener runs inside the emit: it takes the whole read buffer, decodes  *)
(* it and appends it.  The read buffer is empty between steps.  The bytes  *)
(* one read finds are a prefix of what the child has written so far: a     *)
(* read can end inside a character.                                        *)
(***************************************************************************)
NoRead == [src |-> "none", nbytes |-> 0, grew |-> 0, fault |-> FALSE]

StreamTotal(s) ==
    LET RECURSIVE Sum(_)
        Sum(chunks) == IF chunks = <<>> THEN 0 ELSE Len(Head(chunks)) + Sum(Tail(chunks))
    IN  Sum(taken[s]) + Len(pipe[s])

ChildWrite ==
    /\ procState = "Running"
    /\ \E s \in Streams, c \in OutChars :
        LET bytes == utf8_encode(<<c>>) IN
        /\ StreamTotal(s) + Len(bytes) <= MaxStreamBytes
        /\ pipe' = [pipe EXCEPT ![s] = pipe[s] \o bytes]
    /\ UNCHANGED <<output, taken, lastRead, app>>
    /\ UNCHANGED shellVars /\ UNCHANGED runVars

\* QTextEdit.append(text): a new block after the last one, except that an
\* empty document takes the text into its one (empty) block.  The document
\* is the sequence of its blocks, <<>> for the empty document; each block
\* keeps the stream its text came from.
QTextEditAppend(doc, s, text) ==
    IF doc = <<>> /\ text = <<>> THEN doc ELSE Append(doc, [src |-> s, text |-> text])

\* on_stdout / on_stderr, with data the bytes readAllStandardXxx() returns:
\*     data = self.process.readAllStandardXxx().data().decode()
\*     self.output.append(data)
\* The result is the document after the call; fault = TRUE is the
\* UnicodeDecodeError leaving the slot, the bytes read are then gone.
ListenerBody(s, data, doc) ==
    LET d == utf8_decode(data)
        after == IF d.ok THEN QTextEditAppend(doc, s, d.text) ELSE doc
    IN  [output |-> after,
         read |-> [src |-> s, nbytes |-> Len(data),
                   grew |-> Len(after) - Len(doc), fault |-> ~d.ok]]

\* The numbers of bytes a read of a pipe holding n bytes can return when Qt
\* goes on to emit the signal: a read of no bytes emits nothing.
ReadSizes(n) == 1..n

\* Qt reads k bytes of stream s and emits; the listener runs.
ReadyRead(s) ==
    \E k \in ReadSizes(Len(pipe[s])) :
        LET data == SubSeq(pipe[s], 1, k)
            r == ListenerBody(s, data, output)
        IN  /\ pipe' = [pipe EXCEPT ![s] = SubSeq(pipe[s], k + 1, Len(pipe[s]))]
            /\ taken' = [taken EXCEPT ![s] = Append(taken[s], data)]
            /\ output' = r.output
            /\ lastRead' = r.read
            /\ IF r.read.fault
               THEN \E abort \in BOOLEAN : app' = SlotFault(abort)
               ELSE app' = app

on_stdout ==
    /\ app = "running"
    /\ procState = "Running"
    /\ ReadyRead("stdout")
    /\ UNCHANGED shellVars /\ UNCHANGED runVars

on_stderr ==
    /\ app = "running"
    /\ procState = "Running"
    /\ ReadyRead("stderr")
    /\ UNCHANGED shellVars /\ UNCHANGED runVars

\* on_stdout() / on_stderr() called when the read buffer of the stream holds
\* nothing, that is a call of the method that is not made from inside Qt's
\* emit: readAllStandardXxx() returns no bytes and the body runs on them.
\* The calls are counted by the empty blocks they leave in the log.
listener_call_empty ==
    /\ app = "running"
    /\ Cardinality({i \in 1..Len(output) : output[i].text = <<>>}) < MaxEmptyReads
    /\ \E s \in Streams :
        LET r == ListenerBody(s, <<>>, output)
        IN  /\ output' = r.output
            /\ lastRead' = r.read
    /\ UNCHANGED <<pipe, taken, app>>
    /\ UNCHANGED shellVars /\ UNCHANGED runVars

\* The shell process ends by itself (crash, "exit" typed).  Before the state
\* becomes NotRunning Qt reads what is left in the stdout pipe, then in the
\* stderr pipe, and emits for each that held bytes, so the listeners run
\* inside this step.  A fault in the stdout listener that aborts the
\* application leaves the stderr bytes unread.
ShellExit ==
    /\ procState = "Running"
    /\ procState' = "NotRunning"
    /\ live' = {}
    /\ pipe' = [s \in Streams |-> <<>>]
    /\ IF app /= "running"
       THEN UNCHANGED <<output, taken, lastRead, app>>
       ELSE
       LET out == pipe["stdout"]
           err == pipe["stderr"]
           r1 == ListenerBody("stdout", out, output)
           doc1 == IF out = <<>> THEN output ELSE r1.output
           r2 == ListenerBody("stderr", err, doc1)
       IN  \/ /\ out /= <<>> /\ r1.read.fault
              /\ app' = "aborted"
              /\ output' = doc1
              /\ taken' = [taken EXCEPT !["stdout"] = Append(taken["stdout"], out)]
              /\ lastRead' = r1.read
           \/ /\ output' = IF err = <<>> THEN doc1 ELSE r2.output
              /\ taken' = [s \in Streams |->
                             IF pipe[s] = <<>> THEN taken[s]
                             ELSE Append(taken[s], pipe[s])]
              /\ lastRead' = IF err /= <<>> THEN r2.read
                             ELSE IF out /= <<>> THEN r1.read
                             ELSE lastRead
              /\ IF err /= <<>> /\ r2.read.fault
                 THEN \E abort \in BOOLEAN : app' = SlotFault(abort)
                 ELSE app' = app
    /\ UNCHANGED <<nextPid, stdin, input, lastCall>>
    /\ UNCHANGED runVars

(***************************************************************************)
(* main: ScriptEditor() builds the window and, in init_terminal, starts    *)
(* the shell, so the first handler finds the shell running, or not running *)
(* because that start failed.  init_toolbar evaluates Qt.QSize, which the  *)
(* Qt namespace of PyQt5.QtCore does not have: there the constructor       *)
(* raises and main ends before the event loop (app = "aborted").  The      *)
(* running states are the window as built when that attribute resolves.    *)
(***************************************************************************)
Init ==
    /\ tabs = <<>>
    /\ cur = 0
    /\ disk = [p \in Paths |-> ""]
    /\ lastRun = NoRun
    /\ \/ /\ app = "aborted"
          /\ procState = "NotRunning" /\ live = {} /\ nextPid = 1
       \/ /\ app = "running"
          /\ \/ procState = "Running" /\ live = {1} /\ nextPid = 2
             \/ procState = "NotRunning" /\ live = {} /\ nextPid = 1
    /\ stdin = <<>>
    /\ input = <<>>
    /\ lastCall = NoCall
    /\ pipe = [s \in Streams |-> <<>>]
    /\ output = <<>>
    /\ taken = [s \in Streams |-> <<>>]
    /\ lastRead = NoRead

NextRun ==
    \/ open_file
    \/ load_file_from_explorer
    \/ new_file
    \/ close_tab
    \/ edit_text
    \/ save_file
    \/ EnvDelete
    \/ run_script
    \/ run_script_main

\* The tab and run handlers neither read nor change the shell: they are
\* followed from the window whose shell has started.
InitRun == Init /\ (app = "running" => procState = "Running")

SpecRun == InitRun /\ [][NextRun]_vars

NextShell ==
    \/ start
    \/ paste_input
    \/ handle_keypress
    \/ ShellExit
    \/ undo
    \/ normal_exit

SpecShell == Init /\ [][NextShell]_vars

NextStream ==
    \/ start
    \/ ShellExit
    \/ ChildWrite
    \/ on_stdout
    \/ on_stderr

SpecStream == Init /\ [][NextStream]_vars

\* The listeners as methods: the calls Qt makes and calls on an empty buffer.
NextListener ==
    \/ ChildWrite
    \/ on_stdout
    \/ on_stderr
    \/ listener_call_empty

SpecListener == Init /\ [][NextListener]_vars

Next == NextRun \/ NextShell \/ NextStream \/ NextListener

Spec == Init /\ [][Next]_vars

(***************************************************************************)
(* Properties.                                                             *)
(***************************************************************************)

\* C1: a run_script call on a tab whose file path has an extension other
\* than .py, .bat and .ps1 ends with the "Unsupported script type!" warning
\* and hands no command to the process launcher, in both editor files.
C1_UnsupportedNeverSpawns ==
    (/\ lastRun.called
     /\ lastRun.path /= NoPath
     /\ splitext_ext(lastRun.path) \notin SUPPORTED_EXTENSIONS)
    => (/\ lastRun.dialog = "warning:unsupported"
        /\ lastRun.cmd = NoCmd
        /\ ~lastRun.launched)

C1_Witness ==
    /\ lastRun.called
    /\ lastRun.impl = "unify-main"
    /\ lastRun.path = PathTxt
    /\ lastRun.dialog = "warning:unsupported"

\* C2: a run on a script path (of a supported type) that does not exist on
\* disk when run_script is called reports MissingFile and spawns nothing.
C2_MissingFileNoSpawn ==
    (/\ lastRun.called
     /\ lastRun.path /= NoPath
     /\ splitext_ext(lastRun.path) \in SUPPORTED_EXTENSIONS
     /\ ~lastRun.existed)
    => (/\ lastRun.dialog = "error:MissingFile"
        /\ lastRun.cmd = NoCmd
        /\ ~lastRun.launched)

\* The output of a child whose stdout and stderr are one stream: everything
\* it wrote, in the order it wrote it.
RECURSIVE MergedOutput(_)
MergedOutput(writes) ==
    IF writes = <<>> THEN <<>> ELSE Head(writes).data \o MergedOutput(Tail(writes))

\* Bytes that are the same text in every encoding and have no line ends.
PlainText(b) == \A i \in 1..Len(b) : b[i] \in 32..126

\* C3: when the child of a run was launched and has exited, the run is
\* reported as success (the "Execution Output" information box) exactly
\* when the exit code is 0; with a non-zero exit code it is reported as
\* failure (the "Execution Error" warning) showing the child's merged
\* stdout and stderr.
C3_SuccessIffExitZero ==
    lastRun.launched
    => (/\ (lastRun.dialog = "information:output") <=> (lastRun.code = 0)
        /\ lastRun.code /= 0
             => (/\ lastRun.dialog = "warning:error"
                 /\ PlainText(MergedOutput(lastRun.writes))
                      => lastRun.text = MergedOutput(lastRun.writes)))

\* C4: a run whose child process the OS fails to create ends as a failed
\* result shown to the user (the "Execution Error" warning); no exception
\* leaves run_script.
C4_LaunchFailureIsResult ==
    (lastRun.called /\ lastRun.cmd /= NoCmd /\ ~lastRun.launched)
    => lastRun.dialog = "warning:error"

\* C5: a key press in the input box while the shell process is not running
\* writes nothing to a process input, raises nothing and neither creates
\* nor restarts a process.
C5_SubmitWhileNotRunningIsNoOp ==
    [][(handle_keypress /\ procState /= "Running")
       => (/\ stdin' = stdin
           /\ live' = live
           /\ procState' = procState
           /\ nextPid' = nextPid
           /\ app' = app)]_vars

C5_Witness ==
    /\ lastCall.op = "keypress"
    /\ lastCall.key = "Key_Return"
    /\ ~lastCall.running
    /\ strip(lastCall.text) /= <<>>
    /\ nextPid > 1
    /\ procState = "NotRunning"

\* C6: the shell session never owns more than one live child process; a
\* start call made while the process is running creates none.
C6_AtMostOneShellProcess == Cardinality(live) <= 1

C6_Witness ==
    /\ lastCall.op = "start"
    /\ lastCall.running
    /\ Cardinality(live) = 1

\* C7: once the editor session has ended, by the window being closed or by
\* an abnormal shutdown, no shell child process is alive.
C7_ShellDiesWithSession == (app /= "running") => (live = {})

\* The text between the first and the last non-whitespace character.
Trimmed(t) ==
    LET solid == {i \in 1..Len(t) : ~IsSpace(t[i])}
    IN  IF solid = {} THEN <<>>
        ELSE SubSeq(t, CHOOSE i \in solid : \A j \in solid : i <= j,
                       CHOOSE i \in solid : \A j \in solid : j <= i)

\* C8: on Return in the input box, a text that is empty after trimming
\* whitespace writes nothing to the shell's input; otherwise, the shell
\* process running, the trimmed text followed by one line feed is written
\* to its input, once.
C8_SubmitWritesTrimmedLine ==
    [][(handle_keypress /\ lastCall'.key = "Key_Return")
       => IF Trimmed(input) = <<>>
          THEN stdin' = stdin
          ELSE (procState = "Running")
                 => stdin' = stdin \o utf8_encode(Trimmed(input)) \o <<10>>]_vars

C8_Witness ==
    /\ lastCall.op = "keypress"
    /\ lastCall.key = "Key_Return"
    /\ lastCall.running
    /\ lastCall.text = <<97, 32>>
    /\ stdin = <<97, 10>>

RECURSIVE NonEmptyOnly(_)
NonEmptyOnly(chunks) ==
    IF chunks = <<>> THEN <<>>
    ELSE IF Head(chunks) = <<>> THEN NonEmptyOnly(Tail(chunks))
    ELSE <<Head(chunks)>> \o NonEmptyOnly(Tail(chunks))

\* The chunks of stream s in the output log, as bytes, in log order.
LoggedChunks(s) ==
    LET mine == SelectSeq(output, LAMBDA blk : blk.src = s)
    IN  NonEmptyOnly([i \in 1..Len(mine) |-> utf8_encode(mine[i].text)])

\* C9: for each stream, the chunks its listener has read are in the output
\* log in the order they were read, none missing, none twice.
C9_PerStreamOrderKept ==
    \A s \in Streams : LoggedChunks(s) = NonEmptyOnly(taken[s])

RunScriptStep ==
    /\ lastRun'.called
    /\ \A p \in Paths : disk'[p] = Absent => disk[p] = Absent

\* C11: a run_script call that hands a command to the process launcher has
\* written the current tab's buffer to the tab's file path first, so the
\* file then holds the buffer's text; a run_script call that returns early
\* (no current tab, no file path, unsupported extension) leaves the file
\* system as it was and hands no command to the launcher.
C11_SaveBeforeSpawn ==
    [][RunScriptStep
       => /\ lastRun'.cmd /= NoCmd
             => (/\ lastRun'.saved
                 /\ cur >= 1
                 /\ disk'[tabs[cur].file_path] = tabs[cur].text)
          /\ lastRun'.dialog \in {"warning:unsaved", "warning:unsupported"}
             => (/\ disk' = disk
                 /\ ~lastRun'.saved
                 /\ lastRun'.cmd = NoCmd
                 /\ ~lastRun'.launched)]_vars

\* A run that found the file missing, wrote the edited buffer and launched.
C11_Witness ==
    /\ lastRun.launched
    /\ lastRun.cmd /= NoCmd
    /\ lastRun.saved
    /\ ~lastRun.existed
    /\ cur >= 1
    /\ tabs[cur].text = "pr"
    /\ disk[lastRun.path] = "pr"

====
